---- MODULE Spec2Model ----
(***************************************************************************)
(* Invitation backend: the invitations table, the slug stored procedure,   *)
(* InvitationService and InvitationController, modelled as concurrent      *)
(* request handlers over one shared store.  Every await on the store is    *)
(* one atomic step of a handler.                                           *)
(***************************************************************************)
EXTENDS Integers, Sequences, FiniteSets, Bags, TLC

(***************************************************************************)
(* Bounds of the model                                                     *)
(***************************************************************************)
\* number of request handlers that may be in flight at once
NumProcs == 2
\* number of rows ever inserted into invitations (ids are never reused)
MaxInv == 2
\* number of public lookups that may be started
MaxLookups == 2
\* number of clock ticks
MaxTicks == 1

\* Date.now() when the first request arrives
ClockStart == 1000

Procs == 1 .. NumProcs
Ids == 1 .. MaxInv
Users == {"A", "B"}

(***************************************************************************)
(* JSON values: a tag and the text of the value                            *)
(***************************************************************************)
NULL == [t |-> "null", v |-> <<>>]
UNDEFINED == [t |-> "undefined", v |-> <<>>]
Str(s) == [t |-> "string", v |-> s]
Num(s) == [t |-> "number", v |-> s]

\* JavaScript truthiness of a value
Truthy(x) ==
    CASE x.t = "string" -> x.v # <<>>
      [] x.t = "number" -> x.v # <<"0">>
      [] x.t = "array" -> TRUE
      [] OTHER -> FALSE

\* formData?.key
Get(fd, k) == IF k \in DOMAIN fd THEN fd[k] ELSE UNDEFINED

\* x || null
OrNull(x) == IF Truthy(x) THEN x ELSE NULL

\* { ...a, ...b }
Merge(a, b) ==
    [k \in (DOMAIN a) \cup (DOMAIN b) |-> IF k \in DOMAIN b THEN b[k] ELSE a[k]]

(***************************************************************************)
(* enum InvitationType, enum InvitationStatus                              *)
(***************************************************************************)
InvitationType ==
    {"wedding", "birthday", "graduation", "baby_shower", "business",
     "anniversary", "party"}

InvitationStatus == {"draft", "published", "archived", "expired"}

(***************************************************************************)
(* Field extraction                                                        *)
(***************************************************************************)
extractEventDate(type, formData) ==
    CASE type = "wedding" -> OrNull(Get(formData, "eventDate"))
      [] type = "birthday" -> OrNull(Get(formData, "partyDate"))
      [] type = "graduation" -> OrNull(Get(formData, "graduationDate"))
      [] type = "baby_shower" -> OrNull(Get(formData, "partyDate"))
      [] type = "business" -> OrNull(Get(formData, "eventDate"))
      [] OTHER -> NULL

extractVenueName(type, formData) == OrNull(Get(formData, "venueName"))

extractVenueAddress(type, formData) == OrNull(Get(formData, "venueAddress"))

(***************************************************************************)
(* Strings as sequences of characters                                      *)
(***************************************************************************)
UpperChars ==
    <<"A", "B", "C", "D", "E", "F", "G", "H", "I", "J", "K", "L", "M",
      "N", "O", "P", "Q", "R", "S", "T", "U", "V", "W", "X", "Y", "Z">>

LowerChars ==
    <<"a", "b", "c", "d", "e", "f", "g", "h", "i", "j", "k", "l", "m",
      "n", "o", "p", "q", "r", "s", "t", "u", "v", "w", "x", "y", "z">>

DigitChars == <<"0", "1", "2", "3", "4", "5", "6", "7", "8", "9">>

Range(s) == {s[i] : i \in DOMAIN s}

\* LOWER() on one character
LowerChar(c) ==
    IF c \in Range(UpperChars)
    THEN LowerChars[CHOOSE i \in DOMAIN UpperChars : UpperChars[i] = c]
    ELSE c

\* LOWER(text)
LOWER(s) == [i \in DOMAIN s |-> LowerChar(s[i])]

\* REGEXP_REPLACE(s, '[^a-z0-9-]', '-', 'g')
ReplaceNonSlugChars(s) ==
    [i \in DOMAIN s |->
        IF s[i] \in Range(LowerChars) \cup Range(DigitChars) \cup {"-"}
        THEN s[i] ELSE "-"]

\* REGEXP_REPLACE(s, '-+', '-', 'g')
RECURSIVE CollapseHyphens(_)
CollapseHyphens(s) ==
    IF Len(s) <= 1 THEN s
    ELSE IF s[1] = "-" /\ s[2] = "-" THEN CollapseHyphens(Tail(s))
    ELSE <<s[1]>> \o CollapseHyphens(Tail(s))

\* TRIM(BOTH '-' FROM s)
RECURSIVE TrimHyphens(_)
TrimHyphens(s) ==
    IF s = <<>> THEN s
    ELSE IF s[1] = "-" THEN TrimHyphens(Tail(s))
    ELSE IF s[Len(s)] = "-" THEN TrimHyphens(SubSeq(s, 1, Len(s) - 1))
    ELSE s

\* decimal text of a natural number
RECURSIVE IntText(_)
IntText(n) ==
    IF n < 10 THEN <<DigitChars[n + 1]>>
    ELSE IntText(n \div 10) \o <<DigitChars[(n % 10) + 1]>>

\* the text of an invitation type
TypeText(type) ==
    CASE type = "wedding" -> <<"w", "e", "d", "d", "i", "n", "g">>
      [] type = "birthday" -> <<"b", "i", "r", "t", "h", "d", "a", "y">>
      [] type = "graduation" ->
            <<"g", "r", "a", "d", "u", "a", "t", "i", "o", "n">>
      [] type = "baby_shower" ->
            <<"b", "a", "b", "y", "_", "s", "h", "o", "w", "e", "r">>
      [] type = "business" -> <<"b", "u", "s", "i", "n", "e", "s", "s">>
      [] type = "anniversary" ->
            <<"a", "n", "n", "i", "v", "e", "r", "s", "a", "r", "y">>
      [] type = "party" -> <<"p", "a", "r", "t", "y">>

T_invitation == <<"-", "i", "n", "v", "i", "t", "a", "t", "i", "o", "n">>

\* COALESCE(form_data->>key, dflt): ->> is SQL NULL for a missing key or a
\* JSON null, and the text of the value otherwise
CoalesceText(fd, k, dflt) ==
    IF k \in DOMAIN fd /\ fd[k].t # "null" THEN fd[k].v ELSE dflt

(***************************************************************************)
(* generate_invitation_slug                                                *)
(***************************************************************************)
T_bride == <<"b", "r", "i", "d", "e">>
T_groom == <<"g", "r", "o", "o", "m">>
T_wedding == <<"-", "w", "e", "d", "d", "i", "n", "g">>
T_birthday == <<"b", "i", "r", "t", "h", "d", "a", "y">>
T_party == <<"p", "a", "r", "t", "y">>
T_graduate == <<"g", "r", "a", "d", "u", "a", "t", "e">>
T_graduation == <<"-", "g", "r", "a", "d", "u", "a", "t", "i", "o", "n">>

\* the CASE statement that builds base_slug
RawBaseSlug(invitation_type, form_data) ==
    CASE invitation_type = "wedding" ->
            LOWER(CoalesceText(form_data, "brideName", T_bride) \o <<"-">>
                  \o CoalesceText(form_data, "groomName", T_groom)
                  \o T_wedding)
      [] invitation_type = "birthday" ->
            LOWER(CoalesceText(form_data, "celebrantName", T_birthday)
                  \o <<"-">> \o T_birthday \o <<"-">>
                  \o CoalesceText(form_data, "age", T_party))
      [] invitation_type = "graduation" ->
            LOWER(CoalesceText(form_data, "graduateName", T_graduate)
                  \o T_graduation)
      [] OTHER -> TypeText(invitation_type) \o T_invitation

\* a base slug that is left as the CASE statement built it
BaseSlug_NoCleanup(invitation_type, form_data) ==
    RawBaseSlug(invitation_type, form_data)

\* base_slug after "Clean up slug"
BaseSlug(invitation_type, form_data) ==
    TrimHyphens(CollapseHyphens(ReplaceNonSlugChars(
        RawBaseSlug(invitation_type, form_data))))

\* the WHILE EXISTS loop, entered with final_slug and counter
RECURSIVE UniqueLoop(_, _, _, _)
UniqueLoop(base_slug, final_slug, counter, slugs) ==
    IF final_slug \in slugs
    THEN UniqueLoop(base_slug, base_slug \o <<"-">> \o IntText(counter),
                    counter + 1, slugs)
    ELSE final_slug

generate_invitation_slug(invitation_type, form_data, slugs) ==
    UniqueLoop(BaseSlug(invitation_type, form_data),
               BaseSlug(invitation_type, form_data), 1, slugs)

\* `${type}-invitation-${timestamp}`
FallbackSlug(type, timestamp) ==
    TypeText(type) \o T_invitation \o <<"-">> \o IntText(timestamp)

(***************************************************************************)
(* validateInvitationData                                                  *)
(***************************************************************************)
\* the date texts new Date() parses to a point in time
D1 == <<"2", "0", "2", "4">>
D2 == <<"2", "0", "2", "5">>
ValidDateTexts == {D1, D2}

isValidDate(x) == x.t = "string" /\ x.v \in ValidDateTexts

\* data.key && typeof data.key !== 'string'
NotString(data, k) == Truthy(Get(data, k)) /\ Get(data, k).t # "string"

\* data.key && !isValidDate(data.key)
NotDate(data, k) == Truthy(Get(data, k)) /\ ~isValidDate(Get(data, k))

AddIf(cond, msg) == IF cond THEN <<msg>> ELSE <<>>

validateWeddingData(data) ==
    AddIf(NotString(data, "groomName"), "Groom name must be a string")
    \o AddIf(NotString(data, "brideName"), "Bride name must be a string")
    \o AddIf(NotDate(data, "eventDate"), "Invalid event date")
    \o AddIf(NotString(data, "venueName"), "Venue name must be a string")

validateBirthdayData(data) ==
    AddIf(NotString(data, "celebrantName"), "Celebrant name must be a string")
    \o AddIf(Truthy(Get(data, "age"))
             /\ (Get(data, "age").t # "number"
                 \/ Head(Get(data, "age").v) = "-"),
             "Age must be a positive number")
    \o AddIf(NotDate(data, "partyDate"), "Invalid party date")

validateGraduationData(data) ==
    AddIf(NotString(data, "graduateName"), "Graduate name must be a string")
    \o AddIf(NotString(data, "degree"), "Degree must be a string")
    \o AddIf(NotString(data, "school"), "School must be a string")
    \o AddIf(NotDate(data, "graduationDate"), "Invalid graduation date")

GenderTexts ==
    {<<"b", "o", "y">>, <<"g", "i", "r", "l">>,
     <<"s", "u", "r", "p", "r", "i", "s", "e">>}

validateBabyShowerData(data) ==
    AddIf(Truthy(Get(data, "parentNames"))
          /\ Get(data, "parentNames").t # "array",
          "Parent names must be an array")
    \o AddIf(NotDate(data, "dueDate"), "Invalid due date")
    \o AddIf(NotDate(data, "partyDate"), "Invalid party date")
    \o AddIf(Truthy(Get(data, "gender"))
             /\ ~(Get(data, "gender").t = "string"
                  /\ Get(data, "gender").v \in GenderTexts),
             "Gender must be boy, girl, or surprise")

validateBusinessData(data) ==
    AddIf(NotString(data, "eventTitle"), "Event title must be a string")
    \o AddIf(NotString(data, "company"), "Company must be a string")
    \o AddIf(NotDate(data, "eventDate"), "Invalid event date")

\* the errors list; isValid is errors.length === 0
validateInvitationData(type, data) ==
    CASE type = "wedding" -> validateWeddingData(data)
      [] type = "birthday" -> validateBirthdayData(data)
      [] type = "graduation" -> validateGraduationData(data)
      [] type = "baby_shower" -> validateBabyShowerData(data)
      [] type = "business" -> validateBusinessData(data)
      [] OTHER -> <<"Invalid invitation type">>

\* a validator that reports every payload as valid
isValid_AcceptsAll(type, data) == TRUE

\* validationResult.isValid
isValid(type, data) == validateInvitationData(type, data) = <<>>

(***************************************************************************)
(* State                                                                   *)
(***************************************************************************)
VARIABLES
    store,      \* table invitations: id -> row, for the rows that exist
    nextId,     \* the next id uuid_generate_v4() hands out
    now,        \* the clock read by Date.now() and new Date()
    pc,         \* per handler: the await it is suspended at, or "idle"
    req,        \* per handler: the request being served
    loc,        \* per handler: its local variables
    resp,       \* the response sent last, with the request it answers
    resellers,  \* table resellers: the bag of its rows
    codeUnique, \* whether the table declares referral_code UNIQUE
    rpc,        \* per createReseller call: the await it is suspended at
    rloc,       \* per createReseller call: its argument and local variables
    rresp,      \* the outcome of the createReseller call that ended last
    admin_users, \* table admin_users: the set of its rows
    apc,        \* per admin request: the await it is suspended at
    aloc,       \* per admin request: req.admin and local variables
    aresp       \* the response to the admin request answered last

\* the variables of the invitation handlers
ivars == <<store, nextId, now, pc, req, loc, resp>>

\* the variables of the reseller handlers
rvars == <<resellers, codeUnique, rpc, rloc, rresp>>

\* the variables of the admin handlers
avars == <<admin_users, apc, aloc, aresp>>

vars == <<store, nextId, now, pc, req, loc, resp,
          resellers, codeUnique, rpc, rloc, rresp,
          admin_users, apc, aloc, aresp>>

\* published_at IS NULL
NullTime == 0

NoRow == [id |-> 0]

NoReq ==
    [op |-> "none", user |-> "", id |-> 0, type |-> "", title |-> "",
     has_form |-> FALSE, form_data |-> <<>>, status |-> "", slug |-> <<>>]

NoLoc == [slug |-> <<>>, row |-> NoRow, current |-> 0]

NoResp ==
    [op |-> "none", user |-> "", id |-> 0, code |-> 0, data |-> NoRow,
     list |-> {}, message |-> "", logged |-> ""]

Slugs == {store[i].slug : i \in DOMAIN store}

\* the filter without .eq('user_id', userId)
Owned_AnyUser(id, userId) == id \in DOMAIN store

\* .eq('id', id).eq('user_id', userId) matches a row
Owned(id, userId) == id \in DOMAIN store /\ store[id].user_id = userId

\* handlers that are between generating a slug and inserting the row
Creating == {p \in Procs : pc[p] \in {"dup_slug", "create_insert"}}

\* createReseller: no call in progress
NoRloc == [user_id |-> "", referral_code |-> <<>>, attempts |-> 0]

NoRresp ==
    [user_id |-> "", error |-> "", code |-> 0, message |-> "",
     referral_code |-> <<>>]

\* jwt.sign(payload, secret): the token, which carries the key that signed it
sign(payload, secret) ==
    [kind |-> "jwt", key |-> secret, id |-> payload.id,
     role |-> payload.role, exp |-> payload.exp]

\* a request without the cookie, and a cookie whose text is no token
NoCookie == [kind |-> "none", key |-> "", id |-> 0, role |-> "", exp |-> 0]
NotAToken == [NoCookie EXCEPT !.kind = "text"]

\* no admin request in progress
NoAloc == [id |-> 0, email |-> ""]

NoAresp == [code |-> 0, message |-> "", token |-> NoCookie, admin |-> 0]

\* bcrypt.hash(password)
Hash(password) == <<"bcrypt", password>>

\* the admin database.sql inserts, with password 'admin123'
DefaultAdmin ==
    [id |-> 1, email |-> "admin@invitation.com",
     password_hash |-> Hash("admin123")]

\* empty tables and idle handlers
InitTables ==
    /\ store = <<>>
    /\ nextId = 1
    /\ now = ClockStart
    /\ pc = [p \in Procs |-> "idle"]
    /\ req = [p \in Procs |-> NoReq]
    /\ loc = [p \in Procs |-> NoLoc]
    /\ resp = NoResp
    /\ resellers = EmptyBag
    /\ rpc = [p \in Procs |-> "idle"]
    /\ rloc = [p \in Procs |-> NoRloc]
    /\ rresp = NoRresp
    /\ apc = [p \in Procs |-> "idle"]
    /\ aloc = [p \in Procs |-> NoAloc]
    /\ aresp = NoAresp

\* the resellers table as the README and API.md describe it, with
\* referral_code unique
Init ==
    /\ InitTables
    /\ codeUnique = TRUE
    /\ admin_users = {DefaultAdmin}

\* the resellers table with referral_code unique as the README and API.md
\* describe it, or without a constraint on it as in database.sql
InitResellers ==
    /\ InitTables
    /\ codeUnique \in BOOLEAN
    /\ admin_users = {DefaultAdmin}

\* the handler of request r answers and ends; logged is what it wrote with
\* console.error first, "" when it logged nothing
ReplyLogged(p, r, code, data, list, message, logged) ==
    /\ resp' = [op |-> r.op, user |-> r.user, id |-> r.id, code |-> code,
                data |-> data, list |-> list, message |-> message,
                logged |-> logged]
    /\ pc' = [pc EXCEPT ![p] = "idle"]
    /\ req' = [req EXCEPT ![p] = NoReq]
    /\ loc' = [loc EXCEPT ![p] = NoLoc]
    /\ UNCHANGED <<rvars, avars>>

Reply(p, r, code, data, list, message) ==
    ReplyLogged(p, r, code, data, list, message, "")

\* the handler of request r suspends at the next await
Await(p, r, label, l) ==
    /\ pc' = [pc EXCEPT ![p] = label]
    /\ req' = [req EXCEPT ![p] = r]
    /\ loc' = [loc EXCEPT ![p] = l]
    /\ UNCHANGED resp
    /\ UNCHANGED <<rvars, avars>>

(***************************************************************************)
(* InvitationService.generateSlug                                          *)
(***************************************************************************)
\* rpcFails: the call to the stored procedure returned an error
generateSlug(type, formData, rpcFails) ==
    IF rpcFails THEN FallbackSlug(type, now)
    ELSE generate_invitation_slug(type, formData, Slugs)

(***************************************************************************)
(* InvitationService.create: the row it inserts                            *)
(***************************************************************************)
NewInvitation(id, userId, data, slug) ==
    [id |-> id,
     user_id |-> userId,
     title |-> data.title,
     type |-> data.type,
     form_data |-> data.form_data,
     event_date |-> extractEventDate(data.type, data.form_data),
     venue_name |-> extractVenueName(data.type, data.form_data),
     venue_address |-> extractVenueAddress(data.type, data.form_data),
     slug |-> slug,
     status |-> "draft",
     is_published |-> FALSE,
     published_at |-> NullTime,
     expires_at |-> NULL,
     meta_title |-> NULL,
     meta_description |-> NULL,
     view_count |-> 0,
     unique_view_count |-> 0,
     rsvp_count |-> 0,
     confirmed_count |-> 0]

\* a table whose slug column has no UNIQUE constraint
UniqueSlugOk_NoConstraint(slug) == TRUE

\* the UNIQUE constraint on invitations.slug accepts the insert
UniqueSlugOk(slug) == slug \notin Slugs

\* INSERT INTO invitations
InsertRow(row) == store' = [i \in (DOMAIN store) \cup {row.id} |->
                               IF i = row.id THEN row ELSE store[i]]

(***************************************************************************)
(* InvitationController.create                                             *)
(***************************************************************************)
CreateReq(user, type, title, form_data) ==
    [NoReq EXCEPT !.op = "create", !.user = user, !.type = type,
                  !.title = title, !.form_data = form_data, !.has_form = TRUE]

\* rpcFails: the stored-procedure call of generateSlug returns an error
CtlCreate(p, user, type, title, form_data, rpcFails) ==
    /\ pc[p] = "idle"
    /\ nextId + Cardinality(Creating) <= MaxInv
    /\ IF type \notin InvitationType
       THEN Reply(p, CreateReq(user, type, title, form_data), 400, NoRow, {},
                  "Invalid invitation type")
       ELSE IF ~isValid(type, form_data)
       THEN Reply(p, CreateReq(user, type, title, form_data), 400, NoRow, {},
                  validateInvitationData(type, form_data)[1])
       ELSE Await(p, CreateReq(user, type, title, form_data),
                  "create_insert",
                  [NoLoc EXCEPT !.slug =
                      generateSlug(type, form_data, rpcFails)])
    /\ UNCHANGED <<store, nextId, now>>

\* InvitationService.create from the insert on, for create and duplicate
CreateInsert(p) ==
    /\ pc[p] = "create_insert"
    /\ IF UniqueSlugOk(loc[p].slug)
       THEN /\ InsertRow(NewInvitation(nextId, req[p].user, req[p],
                                       loc[p].slug))
            /\ nextId' = nextId + 1
            /\ Reply(p, req[p], 201,
                     NewInvitation(nextId, req[p].user, req[p], loc[p].slug),
                     {}, "")
       ELSE /\ UNCHANGED <<store, nextId>>
            /\ IF req[p].op = "duplicate"
               THEN ReplyLogged(p, req[p], 404, NoRow, {},
                                "Invitation not found",
                                "Error creating invitation")
               ELSE ReplyLogged(p, req[p], 500, NoRow, {},
                                "Internal server error",
                                "Error creating invitation")
    /\ UNCHANGED now

(***************************************************************************)
(* The clock                                                               *)
(***************************************************************************)
Tick ==
    /\ now < ClockStart + MaxTicks
    /\ now' = now + 1
    /\ UNCHANGED <<store, nextId, pc, req, loc, resp>>
    /\ UNCHANGED <<rvars, avars>>

(***************************************************************************)
(* InvitationService.getById                                               *)
(***************************************************************************)
\* the row, or null (NoRow) when .single() finds none
getById(id, userId) == IF Owned(id, userId) THEN store[id] ELSE NoRow

\* a request that names an invitation
IdReq(op, user, id) == [NoReq EXCEPT !.op = op, !.user = user, !.id = id]

(***************************************************************************)
(* InvitationController.getById                                            *)
(***************************************************************************)
CtlGetById(p, user, id) ==
    /\ pc[p] = "idle"
    /\ Reply(p, IdReq("getById", user, id), 200, getById(id, user), {}, "")
    /\ UNCHANGED <<store, nextId, now>>

(***************************************************************************)
(* InvitationService.list and InvitationController.list                    *)
(***************************************************************************)
\* rows of the first page for the default page and limit, no filter
list(userId) ==
    {store[i] : i \in {j \in DOMAIN store : store[j].user_id = userId}}

CtlList(p, user) ==
    /\ pc[p] = "idle"
    /\ Reply(p, IdReq("list", user, 0), 200, NoRow, list(user), "")
    /\ UNCHANGED <<store, nextId, now>>

(***************************************************************************)
(* InvitationService.update                                                *)
(***************************************************************************)
\* an update that copies every field of the body into updateData
UpdatePlain_WholeBody(row, data) ==
    [row EXCEPT
       !.title = IF data.title # "" THEN data.title ELSE @,
       !.status = IF data.status # "" THEN data.status ELSE @,
       !.type = IF data.type # "" THEN data.type ELSE @,
       !.slug = IF data.slug # <<>> THEN data.slug ELSE @]

\* the row after UPDATE ... SET updateData, for a body without form_data:
\* of the body only title and status are copied
UpdatePlain(row, data) ==
    [row EXCEPT
       !.title = IF data.title # "" THEN data.title ELSE @,
       !.status = IF data.status # "" THEN data.status ELSE @]

\* an update that derives the fields from the request's form_data alone
UpdateMerged_FromRequestOnly(row, data, existing) ==
    [UpdatePlain(row, data) EXCEPT
       !.form_data = Merge(existing.form_data, data.form_data),
       !.event_date = extractEventDate(existing.type, data.form_data),
       !.venue_name = extractVenueName(existing.type, data.form_data),
       !.venue_address = extractVenueAddress(existing.type, data.form_data)]

\* the row after UPDATE ... SET updateData, for a body with form_data,
\* existing being the row read before
UpdateMerged(row, data, existing) ==
    [UpdatePlain(row, data) EXCEPT
       !.form_data = Merge(existing.form_data, data.form_data),
       !.event_date = extractEventDate(existing.type,
                         Merge(existing.form_data, data.form_data)),
       !.venue_name = extractVenueName(existing.type,
                         Merge(existing.form_data, data.form_data)),
       !.venue_address = extractVenueAddress(existing.type,
                         Merge(existing.form_data, data.form_data))]

\* console.error of the catch block of update, publish, unpublish
ErrorLog(op) ==
    CASE op = "update" -> "Error updating invitation"
      [] op = "publish" -> "Error publishing invitation"
      [] op = "unpublish" -> "Error unpublishing invitation"

\* .update(updateData).eq('id', id).eq('user_id', userId).select().single()
\* and the controller's answer to its outcome
WriteAndReply(p, r, newRow) ==
    IF Owned(r.id, r.user)
    THEN /\ store' = [store EXCEPT ![r.id] = newRow]
         /\ Reply(p, r, 200, newRow, {}, "")
    ELSE /\ UNCHANGED store
         /\ ReplyLogged(p, r, 500, NoRow, {}, "Internal server error",
                        ErrorLog(r.op))

(***************************************************************************)
(* InvitationController.update                                             *)
(***************************************************************************)
UpdateReq(user, id, body) ==
    [NoReq EXCEPT !.op = "update", !.user = user, !.id = id,
                  !.title = body.title, !.status = body.status,
                  !.has_form = body.has_form, !.form_data = body.form_data,
                  !.type = body.type, !.slug = body.slug]

CtlUpdate(p, user, id, body) ==
    /\ pc[p] = "idle"
    /\ IF body.has_form
       THEN /\ IF getById(id, user) = NoRow
               THEN Reply(p, UpdateReq(user, id, body), 404, NoRow, {},
                          "Invitation not found")
               ELSE IF ~isValid(getById(id, user).type, body.form_data)
               THEN Reply(p, UpdateReq(user, id, body), 400, NoRow, {},
                          validateInvitationData(getById(id, user).type,
                                                 body.form_data)[1])
               ELSE Await(p, UpdateReq(user, id, body), "update_get", NoLoc)
            /\ UNCHANGED store
       ELSE WriteAndReply(p, UpdateReq(user, id, body),
               IF Owned(id, user) THEN UpdatePlain(store[id], body)
               ELSE NoRow)
    /\ UNCHANGED <<nextId, now>>

\* InvitationService.update: const existing = await this.getById(id, userId)
UpdateGet(p) ==
    /\ pc[p] = "update_get"
    /\ IF getById(req[p].id, req[p].user) = NoRow
       THEN ReplyLogged(p, req[p], 500, NoRow, {}, "Internal server error",
                        "Error updating invitation")
       ELSE Await(p, req[p], "update_write",
                  [NoLoc EXCEPT !.row = getById(req[p].id, req[p].user)])
    /\ UNCHANGED <<store, nextId, now>>

\* InvitationService.update: the UPDATE statement
UpdateWrite(p) ==
    /\ pc[p] = "update_write"
    /\ WriteAndReply(p, req[p],
          IF Owned(req[p].id, req[p].user)
          THEN UpdateMerged(store[req[p].id], req[p], loc[p].row)
          ELSE NoRow)
    /\ UNCHANGED <<nextId, now>>

(***************************************************************************)
(* InvitationService.publish / unpublish and their controller handlers     *)
(***************************************************************************)
\* PublishInvitationRequest with no field set
NoPublishData ==
    [expires_at |-> UNDEFINED, meta_title |-> UNDEFINED,
     meta_description |-> UNDEFINED]

publish(row, data) ==
    [row EXCEPT
       !.status = "published",
       !.is_published = TRUE,
       !.published_at = now,
       !.expires_at = OrNull(data.expires_at),
       !.meta_title = OrNull(data.meta_title),
       !.meta_description = OrNull(data.meta_description)]

\* an unpublish that keeps the publication time
unpublish_KeepsPublishedAt(row) ==
    [row EXCEPT !.status = "draft", !.is_published = FALSE]

unpublish(row) ==
    [row EXCEPT
       !.status = "draft",
       !.is_published = FALSE,
       !.published_at = NullTime]

\* the controller calls InvitationService.publish(id, user_id)
CtlPublish(p, user, id) ==
    /\ pc[p] = "idle"
    /\ WriteAndReply(p, IdReq("publish", user, id),
          IF Owned(id, user) THEN publish(store[id], NoPublishData)
          ELSE NoRow)
    /\ UNCHANGED <<nextId, now>>

\* the same handler for a request whose body is a PublishInvitationRequest:
\* the handler does not read req.body
CtlPublishWith(p, user, id, body) == CtlPublish(p, user, id)

CtlUnpublish(p, user, id) ==
    /\ pc[p] = "idle"
    /\ WriteAndReply(p, IdReq("unpublish", user, id),
          IF Owned(id, user) THEN unpublish(store[id]) ELSE NoRow)
    /\ UNCHANGED <<nextId, now>>

(***************************************************************************)
(* InvitationService.delete and InvitationController.delete                *)
(***************************************************************************)
\* DELETE FROM invitations WHERE id = id AND user_id = userId
DeleteRow(id, userId) ==
    store' = [i \in (DOMAIN store) \ (IF Owned(id, userId) THEN {id} ELSE {})
                 |-> store[i]]

CtlDelete(p, user, id) ==
    /\ pc[p] = "idle"
    /\ DeleteRow(id, user)
    /\ Reply(p, IdReq("delete", user, id), 204, NoRow, {}, "")
    /\ UNCHANGED <<nextId, now>>

(***************************************************************************)
(* InvitationService.duplicate and InvitationController.duplicate          *)
(***************************************************************************)
\* a duplicate that keeps the title of the original
DuplicateReq_SameTitle(user, id, title, original) ==
    [NoReq EXCEPT
       !.op = "duplicate", !.user = user, !.id = id,
       !.type = original.type,
       !.title = original.title,
       !.has_form = TRUE,
       !.form_data = original.form_data]

\* newInvitationData, kept in the request; title "" is no title
DuplicateReq(user, id, title, original) ==
    [NoReq EXCEPT
       !.op = "duplicate", !.user = user, !.id = id,
       !.type = original.type,
       !.title = IF title # "" THEN title ELSE original.title \o " (Copy)",
       !.has_form = TRUE,
       !.form_data = original.form_data]

CtlDuplicate(p, user, id, title) ==
    /\ pc[p] = "idle"
    /\ nextId + Cardinality(Creating) <= MaxInv
    /\ IF getById(id, user) = NoRow
       THEN ReplyLogged(p, IdReq("duplicate", user, id), 404, NoRow, {},
                        "Invitation not found", "Error duplicating invitation")
       ELSE Await(p, DuplicateReq(user, id, title, getById(id, user)),
                  "dup_slug", NoLoc)
    /\ UNCHANGED <<store, nextId, now>>

\* InvitationService.create called by duplicate: await this.generateSlug
DupSlug(p, rpcFails) ==
    /\ pc[p] = "dup_slug"
    /\ Await(p, req[p], "create_insert",
             [NoLoc EXCEPT !.slug =
                 generateSlug(req[p].type, req[p].form_data, rpcFails)])
    /\ UNCHANGED <<store, nextId, now>>

(***************************************************************************)
(* InvitationService.getBySlug, trackView, InvitationController.getBySlug  *)
(***************************************************************************)
\* the query without .eq('is_published', true)
PublishedWithSlug_AnyStatus(slug) ==
    {i \in DOMAIN store : store[i].slug = slug}

\* .eq('slug', slug).eq('is_published', true)
PublishedWithSlug(slug) ==
    {i \in DOMAIN store : store[i].slug = slug /\ store[i].is_published}

SlugReq(slug) == [NoReq EXCEPT !.op = "getBySlug", !.slug = slug]

CtlGetBySlug(p, slug) ==
    /\ pc[p] = "idle"
    /\ IF PublishedWithSlug(slug) = {}
       THEN Reply(p, SlugReq(slug), 200, NoRow, {}, "")
       ELSE /\ store[CHOOSE i \in PublishedWithSlug(slug) : TRUE].view_count
                  < MaxLookups
            /\ Await(p, SlugReq(slug), "track_read",
                  [NoLoc EXCEPT !.row =
                      store[CHOOSE i \in PublishedWithSlug(slug) : TRUE]])
    /\ UNCHANGED <<store, nextId, now>>

\* trackView: select view_count; a failure is caught and logged
TrackRead(p) ==
    /\ pc[p] = "track_read"
    /\ \/ /\ loc[p].row.id \in DOMAIN store
          /\ Await(p, req[p], "track_write",
                   [loc[p] EXCEPT !.current = store[loc[p].row.id].view_count])
       \/ ReplyLogged(p, req[p], 200, loc[p].row, {}, "",
                      "Error tracking view")
    /\ UNCHANGED <<store, nextId, now>>

\* trackView: update view_count; a failure is caught and logged
TrackWriteOk(p) ==
    /\ pc[p] = "track_write"
    /\ store' = [i \in DOMAIN store |->
                   IF i = loc[p].row.id
                   THEN [store[i] EXCEPT !.view_count = loc[p].current + 1]
                   ELSE store[i]]
    /\ Reply(p, req[p], 200, loc[p].row, {}, "")
    /\ UNCHANGED <<nextId, now>>

\* a trackView that rethrows: getBySlug throws and the controller answers 404
TrackWriteFails_Rethrown(p) ==
    /\ pc[p] = "track_write"
    /\ ReplyLogged(p, req[p], 404, NoRow, {}, "Invitation not found",
                   "Error tracking view")
    /\ UNCHANGED <<store, nextId, now>>

TrackWriteFails(p) ==
    /\ pc[p] = "track_write"
    /\ ReplyLogged(p, req[p], 200, loc[p].row, {}, "", "Error tracking view")
    /\ UNCHANGED <<store, nextId, now>>

(***************************************************************************)
(* Requests the clients send                                               *)
(***************************************************************************)
S_Sa == <<"S", "a">>
S_Jo == <<"J", "o">>
V1 == <<"H", "a", "l", "l">>
V2 == <<"P", "a", "r", "k">>

FD_Wedding ==
    [brideName |-> Str(S_Sa), groomName |-> Str(S_Jo), eventDate |-> Str(D1)]

FD_Birthday ==
    [celebrantName |-> Str(S_Sa), partyDate |-> Str(D1), eventDate |-> Str(D2)]

\* request bodies of POST /invitations: type, title, form_data
CreateInputs ==
    {<<"wedding", "T1", FD_Wedding>>,
     <<"birthday", "T1", FD_Birthday>>,
     <<"party", "T1", <<>>>>,
     <<"wedding", "T1", [eventDate |-> Str(S_Sa)]>>}

\* a body that also carries type and slug, which UpdateInvitationRequest
\* does not declare; "" and <<>> stand for a field the body does not carry
BodyWith(title, status, has_form, form_data, type, slug) ==
    [title |-> title, status |-> status, has_form |-> has_form,
     form_data |-> form_data, type |-> type, slug |-> slug]

Body(title, status, has_form, form_data) ==
    BodyWith(title, status, has_form, form_data, "", <<>>)

\* request bodies of PUT /invitations/:id
UpdateInputs ==
    {Body("T2", "", FALSE, <<>>),
     Body("", "published", FALSE, <<>>),
     Body("", "archived", FALSE, <<>>),
     Body("", "", TRUE, [venueName |-> Str(V1)]),
     Body("", "", TRUE, [venueName |-> Str(<<>>)]),
     Body("", "", TRUE, [eventDate |-> Str(D2)]),
     Body("", "", TRUE, [partyDate |-> Str(D2)]),
     Body("", "", TRUE, [partyDate |-> Str(S_Sa)])}

\* titles of POST /invitations/:id/duplicate; "" is no title
DuplicateTitles == {"", "T3"}

\* slugs of GET /public/:slug: the stored ones and one that is not stored
LookupSlugs == Slugs \cup {<<"x">>}

Next ==
    \/ \E p \in Procs, u \in Users, c \in CreateInputs, f \in BOOLEAN :
          CtlCreate(p, u, c[1], c[2], c[3], f)
    \/ \E p \in Procs : CreateInsert(p)
    \/ \E p \in Procs, u \in Users, id \in Ids : CtlGetById(p, u, id)
    \/ \E p \in Procs, u \in Users : CtlList(p, u)
    \/ \E p \in Procs, u \in Users, id \in Ids, b \in UpdateInputs :
          CtlUpdate(p, u, id, b)
    \/ \E p \in Procs : UpdateGet(p)
    \/ \E p \in Procs : UpdateWrite(p)
    \/ \E p \in Procs, u \in Users, id \in Ids : CtlPublish(p, u, id)
    \/ \E p \in Procs, u \in Users, id \in Ids : CtlUnpublish(p, u, id)
    \/ \E p \in Procs, u \in Users, id \in Ids : CtlDelete(p, u, id)
    \/ \E p \in Procs, u \in Users, id \in Ids, t \in DuplicateTitles :
          CtlDuplicate(p, u, id, t)
    \/ \E p \in Procs, f \in BOOLEAN : DupSlug(p, f)
    \/ \E p \in Procs, s \in LookupSlugs : CtlGetBySlug(p, s)
    \/ \E p \in Procs : TrackRead(p)
    \/ \E p \in Procs : TrackWriteOk(p)
    \/ \E p \in Procs : TrackWriteFails(p)
    \/ Tick

Spec == Init /\ [][Next]_vars

(***************************************************************************)
(* The slug path: creates, duplicates and deletes racing for slugs         *)
(***************************************************************************)
SlugCreateInputs ==
    {<<"wedding", "T1", FD_Wedding>>, <<"birthday", "T1", FD_Birthday>>}

NextSlug ==
    \/ \E p \in Procs, c \in SlugCreateInputs, f \in BOOLEAN :
          CtlCreate(p, "A", c[1], c[2], c[3], f)
    \/ \E p \in Procs : CreateInsert(p)
    \/ \E p \in Procs, id \in Ids : CtlDelete(p, "A", id)
    \/ \E p \in Procs, id \in Ids : CtlDuplicate(p, "A", id, "")
    \/ \E p \in Procs, f \in BOOLEAN : DupSlug(p, f)
    \/ \E p \in Procs, id \in Ids :
          CtlUpdate(p, "A", id, Body("T2", "", FALSE, <<>>))
    \/ \E p \in Procs, id \in Ids : CtlPublish(p, "A", id)
    \/ \E p \in Procs, id \in Ids : CtlUnpublish(p, "A", id)
    \/ Tick

SpecSlug == Init /\ [][NextSlug]_vars


(***************************************************************************)
(* Public lookups: concurrent views of published invitations               *)
(***************************************************************************)
NextViews ==
    \/ \E p \in Procs : CtlCreate(p, "A", "wedding", "T1", FD_Wedding, FALSE)
    \/ \E p \in Procs : CreateInsert(p)
    \/ \E p \in Procs, id \in Ids : CtlPublish(p, "A", id)
    \/ \E p \in Procs, id \in Ids : CtlUnpublish(p, "A", id)
    \/ \E p \in Procs, id \in Ids : CtlDelete(p, "A", id)
    \/ \E p \in Procs, s \in LookupSlugs : CtlGetBySlug(p, s)
    \/ \E p \in Procs : TrackRead(p)
    \/ \E p \in Procs : TrackWriteOk(p)
    \/ \E p \in Procs : TrackWriteFails(p)

SpecViews == Init /\ [][NextViews]_vars

(***************************************************************************)
(* The lifecycle: owner operations on status and publishing metadata       *)
(***************************************************************************)
LifecycleUpdateInputs ==
    {Body("T2", "", FALSE, <<>>),
     Body("", "published", FALSE, <<>>),
     Body("", "archived", FALSE, <<>>),
     Body("", "draft", FALSE, <<>>)}

NextLifecycle ==
    \/ \E p \in Procs : CtlCreate(p, "A", "wedding", "T1", FD_Wedding, FALSE)
    \/ \E p \in Procs : CreateInsert(p)
    \/ \E p \in Procs, id \in Ids, t \in DuplicateTitles :
          CtlDuplicate(p, "A", id, t)
    \/ \E p \in Procs : DupSlug(p, FALSE)
    \/ \E p \in Procs, id \in Ids, b \in LifecycleUpdateInputs :
          CtlUpdate(p, "A", id, b)
    \/ \E p \in Procs, id \in Ids : CtlPublish(p, "A", id)
    \/ \E p \in Procs, id \in Ids : CtlUnpublish(p, "A", id)
    \/ Tick

SpecLifecycle == Init /\ [][NextLifecycle]_vars

(***************************************************************************)
(* Ownership: two users calling the owner-scoped endpoints                 *)
(***************************************************************************)
OwnerUpdateInputs ==
    {Body("T2", "", FALSE, <<>>),
     Body("T2", "", TRUE, [venueName |-> Str(V1)])}

\* both users create invitations; A then calls every owner-scoped endpoint
\* with every id, its own, B's and ids not stored
NextOwner ==
    \/ \E p \in Procs, u \in Users :
          CtlCreate(p, u, "wedding", "T1", FD_Wedding, FALSE)
    \/ \E p \in Procs : CreateInsert(p)
    \/ \E p \in Procs, id \in Ids : CtlGetById(p, "A", id)
    \/ \E p \in Procs : CtlList(p, "A")
    \/ \E p \in Procs, id \in Ids, b \in OwnerUpdateInputs :
          CtlUpdate(p, "A", id, b)
    \/ \E p \in Procs : UpdateGet(p)
    \/ \E p \in Procs : UpdateWrite(p)
    \/ \E p \in Procs, id \in Ids : CtlPublish(p, "A", id)
    \/ \E p \in Procs, id \in Ids : CtlUnpublish(p, "A", id)
    \/ \E p \in Procs, id \in Ids : CtlDelete(p, "A", id)
    \/ \E p \in Procs, id \in Ids : CtlDuplicate(p, "A", id, "")
    \/ \E p \in Procs : DupSlug(p, FALSE)

SpecOwner == Init /\ [][NextOwner]_vars

(***************************************************************************)
(* Derived fields: creates and concurrent updates of form_data             *)
(***************************************************************************)
D3 == <<"2", "0", "2", "6">>

\* a payload that carries every date key, each with its own value
FD_Dates ==
    [eventDate |-> Str(D1), partyDate |-> Str(D2), graduationDate |-> Str(D3)]

DeriveCreateInputs ==
    {<<t, "T1", FD_Dates>> :
        t \in {"wedding", "birthday", "graduation", "baby_shower", "business"}}

DeriveUpdateInputs ==
    {Body("", "", TRUE, [venueName |-> Str(<<>>)]),
     Body("", "", TRUE, [venueName |-> Str(V1), venueAddress |-> Str(V2)]),
     Body("", "", TRUE, [eventDate |-> Str(D2), partyDate |-> Str(D3),
                         graduationDate |-> Str(D1)])}

\* number of invitations created in the runs that follow the fields of one
\* invitation through concurrent operations on it
DeriveRows == 1

NextDerive ==
    \/ \E p \in Procs, c \in DeriveCreateInputs :
          /\ nextId + Cardinality(Creating) <= DeriveRows
          /\ CtlCreate(p, "A", c[1], c[2], c[3], FALSE)
    \/ \E p \in Procs : CreateInsert(p)
    \/ \E p \in Procs, id \in Ids, b \in DeriveUpdateInputs :
          CtlUpdate(p, "A", id, b)
    \/ \E p \in Procs : UpdateGet(p)
    \/ \E p \in Procs : UpdateWrite(p)

SpecDerive == Init /\ [][NextDerive]_vars

(***************************************************************************)
(* Frame: updates, publishes and lookups of invitations that already exist *)
(***************************************************************************)
\* bodies that try to change the category and the slug; title "T4" comes
\* only with such a body
FrameUpdateInputs ==
    {BodyWith("T4", "", FALSE, <<>>, "birthday", <<"x">>),
     BodyWith("T4", "", TRUE, [venueName |-> Str(V1)], "birthday", <<"x">>)}

NextFrame ==
    \/ \E p \in Procs :
          /\ nextId + Cardinality(Creating) <= DeriveRows
          /\ CtlCreate(p, "A", "wedding", "T1", FD_Wedding, FALSE)
    \/ \E p \in Procs : CreateInsert(p)
    \/ \E p \in Procs, id \in Ids, b \in FrameUpdateInputs :
          CtlUpdate(p, "A", id, b)
    \/ \E p \in Procs : UpdateGet(p)
    \/ \E p \in Procs : UpdateWrite(p)
    \/ \E p \in Procs, id \in Ids : CtlPublish(p, "A", id)
    \/ \E p \in Procs, id \in Ids : CtlUnpublish(p, "A", id)
    \/ \E p \in Procs, s \in LookupSlugs : CtlGetBySlug(p, s)
    \/ \E p \in Procs : TrackRead(p)
    \/ \E p \in Procs : TrackWriteOk(p)
    \/ \E p \in Procs : TrackWriteFails(p)

SpecFrame == Init /\ [][NextFrame]_vars

\* base_slug, base_slug-1, base_slug-2, ...
SlugSeries(type, form_data) ==
    {BaseSlug(type, form_data)}
    \cup {BaseSlug(type, form_data) \o <<"-">> \o IntText(k) : k \in 1 .. MaxInv}

\* C1: in every reachable state no two stored invitations have the same slug,
\* whatever their categories
C1_SlugGloballyUnique ==
    \A i, j \in DOMAIN store : i # j => store[i].slug # store[j].slug

\* C1 witness: an invitation is stored and the insert of a second one with a
\* slug that was already taken has been rejected
C1_Witness ==
    /\ DOMAIN store # {}
    /\ resp.op \in {"create", "duplicate"}
    /\ resp.logged = "Error creating invitation"

\* C5: every create whose slug the stored procedure assigned completes with
\* a slug, and that slug is the first of base, base-1, base-2, ... not held by
\* a stored invitation
C5_EveryCreateGetsFirstFreeSlug ==
    [][\A p \in Procs :
          (/\ pc[p] = "create_insert"
           /\ pc'[p] = "idle"
           /\ req[p].op = "create"
           /\ loc[p].slug \in SlugSeries(req[p].type, req[p].form_data))
          => (/\ resp'.code = 201
              /\ resp'.data.slug =
                   generate_invitation_slug(req[p].type, req[p].form_data,
                                            Slugs))]_vars

\* C6: an insert rejected by the uniqueness constraint does not end the
\* create; the handler goes on to assign another slug
C6_RejectedInsertIsRetried ==
    [][\A p \in Procs :
          (/\ pc[p] = "create_insert"
           /\ req[p].op = "create"
           /\ loc[p].slug \in SlugSeries(req[p].type, req[p].form_data)
           /\ loc[p].slug \in Slugs
           /\ pc'[p] # pc[p])
          => pc'[p] # "idle"]_vars



\* C2: for every stored invitation, status = published if and only if
\* is_published = true and published_at is non-null
C2_PublishedIffFlagAndTime ==
    \A i \in DOMAIN store :
        (store[i].status = "published")
        <=> (store[i].is_published /\ store[i].published_at # NullTime)

\* C3: view_count of an invitation never goes down from one state to the next
C3_ViewCountNeverDecreases ==
    [][\A i \in (DOMAIN store) \cap (DOMAIN store') :
          store'[i].view_count >= store[i].view_count]_vars

\* C4: every lookup of a published invitation whose tracking met no storage
\* error leaves view_count one higher than it was, so N completed lookups
\* add N
C4_EachLookupAddsOne ==
    [][\A p \in Procs :
          (/\ pc[p] = "track_write"
           /\ pc'[p] = "idle"
           /\ resp'.logged = ""
           /\ loc[p].row.id \in DOMAIN store
           /\ store[loc[p].row.id].is_published)
          => store'[loc[p].row.id].view_count
                = store[loc[p].row.id].view_count + 1]_vars

\* C7: no call issued with A's user id returns an invitation owned by B,
\* changes a field of an invitation owned by B, or removes it (in SpecOwner
\* B only creates, every other call is A's)
C7_OwnershipIsolation ==
    [][/\ \A i \in DOMAIN store :
             store[i].user_id = "B"
             => (i \in DOMAIN store' /\ store'[i] = store[i])
       /\ resp'.user = "A"
             => /\ resp'.data # NoRow => resp'.data.user_id = "A"
                /\ \A r \in resp'.list : r.user_id = "A"]_vars

\* C7 witness: A has called delete on an invitation of B, which is still
\* stored
C7_Witness ==
    /\ resp.op = "delete"
    /\ resp.user = "A"
    /\ resp.id \in DOMAIN store
    /\ store[resp.id].user_id = "B"

OwnerScopedOps ==
    {"getById", "update", "publish", "unpublish", "delete", "duplicate"}

\* C8: an owner-scoped endpoint called on an id that is not an invitation of
\* the caller answers 404
C8_NotOwnedAnswers404 ==
    [][(/\ resp' # resp
        /\ resp'.op \in OwnerScopedOps
        /\ ~Owned(resp'.id, resp'.user))
       => resp'.code = 404]_vars

\* the form_data key the event date of a category is read from
DateKey(type) ==
    CASE type \in {"wedding", "business"} -> "eventDate"
      [] type \in {"birthday", "baby_shower"} -> "partyDate"
      [] type = "graduation" -> "graduationDate"

\* form_data[k], null when the key is absent
ValueOrNull(fd, k) == IF k \in DOMAIN fd THEN fd[k] ELSE NULL

\* form_data[k], null when the key is absent or its value is falsy
NonEmptyOrNull(fd, k) ==
    IF /\ k \in DOMAIN fd
       /\ fd[k].t \notin {"null", "undefined"}
       /\ ~(fd[k].t = "string" /\ fd[k].v = <<>>)
       /\ ~(fd[k].t = "number" /\ fd[k].v = <<"0">>)
    THEN fd[k] ELSE NULL

C10_UpdateMergesShallowly ==
    [][\A p \in Procs :
          (/\ pc[p] = "update_write"
           /\ pc'[p] = "idle"
           /\ resp'.code = 200)
          => /\ \A k \in DOMAIN req[p].form_data :
                   store'[req[p].id].form_data[k] = req[p].form_data[k]
             /\ \A k \in (DOMAIN store[req[p].id].form_data)
                            \ (DOMAIN req[p].form_data) :
                   /\ k \in DOMAIN store'[req[p].id].form_data
                   /\ store'[req[p].id].form_data[k]
                         = store[req[p].id].form_data[k]]_vars

\* C11: no step changes the type, slug, id or user_id of an invitation that
\* stays stored, whatever the body of an update carries, and a step of
\* update, publish or unpublish leaves the four counters as they were
C11_IdentityAndCountersFramed ==
    [][\A i \in (DOMAIN store) \cap (DOMAIN store') :
          /\ store'[i].type = store[i].type
          /\ store'[i].slug = store[i].slug
          /\ store'[i].id = store[i].id
          /\ store'[i].user_id = store[i].user_id
          /\ resp'.op \in {"update", "publish", "unpublish"}
                => /\ store'[i].view_count = store[i].view_count
                   /\ store'[i].unique_view_count
                         = store[i].unique_view_count
                   /\ store'[i].rsvp_count = store[i].rsvp_count
                   /\ store'[i].confirmed_count
                         = store[i].confirmed_count]_vars

\* C11 witness: an update whose body carried type and slug has been applied
\* to an invitation that had been viewed
C11_Witness ==
    /\ resp.op = "update"
    /\ resp.code = 200
    /\ resp.data.title = "T4"
    /\ resp.id \in DOMAIN store
    /\ store[resp.id].view_count >= 1

(***************************************************************************)
(* Creation: valid and rejected payloads, with and without fallback slugs   *)
(***************************************************************************)
NextCreate ==
    \/ \E p \in Procs, c \in CreateInputs, f \in BOOLEAN :
          CtlCreate(p, "A", c[1], c[2], c[3], f)
    \/ \E p \in Procs : CreateInsert(p)
    \/ \E p \in Procs, id \in Ids, t \in DuplicateTitles :
          CtlDuplicate(p, "A", id, t)
    \/ \E p \in Procs, f \in BOOLEAN : DupSlug(p, f)
    \/ Tick

SpecCreate == Init /\ [][NextCreate]_vars

\* the state a new invitation starts in
FreshDraft(row) ==
    /\ row.status = "draft"
    /\ row.is_published = FALSE
    /\ row.published_at = NullTime
    /\ row.expires_at = NULL
    /\ row.view_count = 0
    /\ row.unique_view_count = 0
    /\ row.rsvp_count = 0
    /\ row.confirmed_count = 0

\* C12: the invitation a successful create stores and returns is a draft, not
\* published, with published_at and expires_at null and the four counters 0;
\* a create whose payload the validator rejects answers 400 with the store
\* unchanged and never gets to the insert
C12_CreateStartsAsFreshDraft ==
    [][/\ \A p \in Procs :
             (/\ pc[p] = "create_insert"
              /\ req[p].op = "create"
              /\ pc'[p] = "idle"
              /\ resp'.code = 201)
             => /\ resp'.data.id \in DOMAIN store'
                /\ store'[resp'.data.id] = resp'.data
                /\ FreshDraft(resp'.data)
       /\ (resp'.op = "create" /\ resp'.code = 400) => store' = store
       /\ \A p \in Procs :
             (pc'[p] = "create_insert" /\ req'[p].op = "create")
             => validateInvitationData(req'[p].type, req'[p].form_data)
                  = <<>>]_vars

\* C12 witness: one create has stored an invitation and another has been
\* rejected by the validator
C12_Witness ==
    /\ DOMAIN store # {}
    /\ resp.op = "create"
    /\ resp.code = 400
    /\ resp.message # "Invalid invitation type"

\* the fields that neither publish nor unpublish is to touch
SameContent(a, b) ==
    /\ a.title = b.title
    /\ a.form_data = b.form_data
    /\ a.event_date = b.event_date
    /\ a.venue_name = b.venue_name
    /\ a.venue_address = b.venue_address
    /\ a.slug = b.slug
    /\ a.view_count = b.view_count
    /\ a.unique_view_count = b.unique_view_count
    /\ a.rsvp_count = b.rsvp_count
    /\ a.confirmed_count = b.confirmed_count

IsDraft(row) ==
    /\ row.status = "draft"
    /\ row.is_published = FALSE
    /\ row.published_at = NullTime

\* C13: a publish by the owner leaves the invitation with status published,
\* is_published true and published_at non-null; an unpublish leaves it with
\* status draft, is_published false and published_at null; both leave title,
\* form_data, derived fields, slug and counters as they were, so a publish
\* followed by an unpublish takes a draft back to where it was
C13_UnpublishReversesPublish ==
    [][/\ (resp'.op = "publish" /\ resp'.code = 200)
             => /\ resp'.id \in (DOMAIN store) \cap (DOMAIN store')
                /\ store'[resp'.id].status = "published"
                /\ store'[resp'.id].is_published = TRUE
                /\ store'[resp'.id].published_at # NullTime
                /\ SameContent(store'[resp'.id], store[resp'.id])
       /\ (resp'.op = "unpublish" /\ resp'.code = 200)
             => /\ resp'.id \in (DOMAIN store) \cap (DOMAIN store')
                /\ IsDraft(store'[resp'.id])
                /\ SameContent(store'[resp'.id], store[resp'.id])
       /\ \A i \in DOMAIN store :
             IsDraft(store[i])
             => /\ IsDraft(unpublish(publish(store[i], NoPublishData)))
                /\ SameContent(unpublish(publish(store[i], NoPublishData)),
                               store[i])]_vars

\* C13 witness: the owner's unpublish has been applied to an invitation
C13_Witness ==
    /\ resp.op = "unpublish"
    /\ resp.code = 200
    /\ resp.id \in DOMAIN store
    /\ IsDraft(store[resp.id])
    /\ resp.data = store[resp.id]

(***************************************************************************)
(* Publishing with metadata in the request                                 *)
(***************************************************************************)
M1 == <<"M", "1">>

\* request bodies of POST /invitations/:id/publish
PublishInputs ==
    {NoPublishData,
     [expires_at |-> Str(D2), meta_title |-> Str(M1),
      meta_description |-> UNDEFINED]}

NextPublish ==
    \/ \E p \in Procs : CtlCreate(p, "A", "wedding", "T1", FD_Wedding, FALSE)
    \/ \E p \in Procs : CreateInsert(p)
    \/ \E p \in Procs, id \in Ids, b \in PublishInputs :
          CtlPublishWith(p, "A", id, b)
    \/ \E p \in Procs, id \in Ids : CtlUnpublish(p, "A", id)
    \/ Tick

SpecPublish == Init /\ [][NextPublish]_vars

\* C14: after a publish request of the owner, expires_at, meta_title and
\* meta_description of the invitation are the values the request supplied,
\* null for a field it did not supply
C14_PublishStoresSuppliedMetadata ==
    [][\A p \in Procs, id \in Ids, b \in PublishInputs :
          (CtlPublishWith(p, "A", id, b) /\ Owned(id, "A"))
          => /\ store'[id].expires_at = OrNull(b.expires_at)
             /\ store'[id].meta_title = OrNull(b.meta_title)
             /\ store'[id].meta_description
                   = OrNull(b.meta_description)]_vars

(***************************************************************************)
(* Duplicates of invitations in any status, viewed or not                  *)
(***************************************************************************)
NextDuplicate ==
    \/ \E p \in Procs : CtlCreate(p, "A", "wedding", "T1", FD_Wedding, FALSE)
    \/ \E p \in Procs : CreateInsert(p)
    \/ \E p \in Procs, id \in Ids : CtlPublish(p, "A", id)
    \/ \E p \in Procs, s \in LookupSlugs : CtlGetBySlug(p, s)
    \/ \E p \in Procs : TrackRead(p)
    \/ \E p \in Procs : TrackWriteOk(p)
    \/ \E p \in Procs : TrackWriteFails(p)
    \/ \E p \in Procs, id \in Ids, t \in DuplicateTitles :
          CtlDuplicate(p, "A", id, t)
    \/ \E p \in Procs, f \in BOOLEAN : DupSlug(p, f)

SpecDuplicate == Init /\ [][NextDuplicate]_vars

\* C15: a duplicate of an invitation of the caller is requested with the
\* supplied title, or with the original's title followed by " (Copy)" when
\* none is supplied; the invitation it stores has an id and a slug that differ
\* from the original's, the original's type and form_data, that title, and
\* the state of a fresh draft; the original and every other stored
\* invitation stay as they were
C15_DuplicateIsFreshCopy ==
    [][/\ \A p \in Procs, id \in Ids, t \in DuplicateTitles :
             (CtlDuplicate(p, "A", id, t) /\ Owned(id, "A"))
             => req'[p].title = IF t # "" THEN t
                                ELSE store[id].title \o " (Copy)"
       /\ \A p \in Procs :
             (/\ pc[p] = "create_insert"
              /\ req[p].op = "duplicate"
              /\ pc'[p] = "idle"
              /\ resp'.code = 201)
             => /\ resp'.data.id \in (DOMAIN store') \ (DOMAIN store)
                /\ store'[resp'.data.id] = resp'.data
                /\ \A i \in DOMAIN store :
                      i \in DOMAIN store' /\ store'[i] = store[i]
                /\ req[p].id \in DOMAIN store
                /\ resp'.data.id # req[p].id
                /\ resp'.data.slug # store[req[p].id].slug
                /\ resp'.data.type = store[req[p].id].type
                /\ resp'.data.form_data = store[req[p].id].form_data
                /\ resp'.data.title = req[p].title
                /\ FreshDraft(resp'.data)]_vars

\* C15 witness: a published invitation that has been viewed and its
\* duplicate, made with no title supplied, are both stored
C15_Witness ==
    /\ resp.op = "duplicate"
    /\ resp.code = 201
    /\ resp.id \in DOMAIN store
    /\ store[resp.id].is_published
    /\ store[resp.id].view_count >= 1
    /\ resp.data.id \in DOMAIN store
    /\ resp.data.title = store[resp.id].title \o " (Copy)"

\* C16: the query of a public lookup selects an invitation only if it is
\* stored with the requested slug and is_published = true at that moment, the
\* invitation a lookup returns is the one its query selected, and a lookup
\* that returns nothing leaves the store, and so every view_count, unchanged
C16_LookupReturnsPublishedOnly ==
    [][/\ \A p \in Procs :
             (pc[p] = "idle" /\ pc'[p] = "track_read")
             => /\ loc'[p].row.id \in DOMAIN store
                /\ loc'[p].row = store[loc'[p].row.id]
                /\ loc'[p].row.slug = req'[p].slug
                /\ loc'[p].row.is_published
       /\ \A p \in Procs :
             (pc[p] \in {"track_read", "track_write"} /\ pc'[p] = "idle")
             => /\ resp'.data = loc[p].row
                /\ resp'.data.is_published
       /\ (resp'.op = "getBySlug" /\ resp'.data = NoRow) => store' = store
       /\ (resp'.op = "getBySlug" /\ resp'.data # NoRow)
             => resp'.data.is_published]_vars

\* C16 witness: a lookup has returned an invitation that was published when
\* the lookup read it and has been unpublished since
C16_Witness ==
    /\ resp.op = "getBySlug"
    /\ resp.data # NoRow
    /\ resp.data.id \in DOMAIN store
    /\ ~store[resp.data.id].is_published

\* C17: a lookup whose trackView ended at a failed counter read or a failed
\* counter write answers 200 with the invitation its query selected, and the
\* store is left as it was; no lookup that got as far as trackView answers
\* anything but 200
C17_TrackingFailureIsSwallowed ==
    [][\A p \in Procs :
          (pc[p] \in {"track_read", "track_write"} /\ pc'[p] = "idle")
          => /\ resp'.code = 200
             /\ resp'.data = loc[p].row
             /\ resp'.message = ""
             /\ resp'.logged = "Error tracking view" => store' = store]_vars

\* C17 witness: a lookup has answered with an invitation after its view
\* tracking failed, and the invitation is stored with its count unchanged
C17_Witness ==
    /\ resp.op = "getBySlug"
    /\ resp.code = 200
    /\ resp.logged = "Error tracking view"
    /\ resp.data.id \in DOMAIN store
    /\ store[resp.data.id] = resp.data

\* the fallback tokens of a category for the clock values of a run
FallbackSlugs(type) ==
    {FallbackSlug(type, t) : t \in ClockStart .. ClockStart + MaxTicks}

\* C18: a create whose stored-procedure call failed carries a fallback token
\* that no stored invitation holds, and its insert is accepted: the create
\* answers 201 with that slug
C18_FallbackCreateSucceeds ==
    [][\A p \in Procs :
          /\ (/\ pc[p] = "idle"
              /\ pc'[p] = "create_insert"
              /\ loc'[p].slug \in FallbackSlugs(req'[p].type))
             => loc'[p].slug \notin Slugs
          /\ (/\ pc[p] = "create_insert"
              /\ req[p].op = "create"
              /\ loc[p].slug \in FallbackSlugs(req[p].type)
              /\ pc'[p] = "idle")
             => /\ resp'.code = 201
                /\ resp'.data.slug = loc[p].slug]_vars

(***************************************************************************)
(* generateReferralCode                                                    *)
(***************************************************************************)
\* chars = 'ABCDEFGHIJKLMNOPQRSTUVWXYZ0123456789'
ReferralChars == UpperChars \o DigitChars

\* rnd[i] is Math.floor(Math.random() * chars.length) of iteration i
generateReferralCode(length, rnd) ==
    [i \in 1 .. length |-> ReferralChars[rnd[i] + 1]]

\* the outcomes of Math.random() followed here: all draws 0, all draws 35
RandomDraws == {[i \in 1 .. 8 |-> 0], [i \in 1 .. 8 |-> 35]}

(***************************************************************************)
(* ResellerService.createReseller and ResellerController.createReseller    *)
(***************************************************************************)
\* if (attempts > 10)
MaxAttempts == 10

\* number of rows of the table resellers a run gets to
MaxResellers == 2

\* the rows of the table, copies of equal rows told apart
ResellerRows ==
    UNION {{<<r, k>> : k \in 1 .. CopiesIn(r, resellers)} :
              r \in BagToSet(resellers)}

\* .eq('user_id', user_id).single() returns a row
SingleWithUser(user_id) ==
    Cardinality({x \in ResellerRows : x[1].user_id = user_id}) = 1

\* rows with this referral_code
WithCode(code) == {x \in ResellerRows : x[1].referral_code = code}

\* .eq('referral_code', referral_code).single() returns a row
SingleWithCode(code) == Cardinality(WithCode(code)) = 1

\* createReseller calls between their first await and their end
CreatingReseller == {p \in Procs : rpc[p] # "idle"}

\* the call throws error; the controller answers 409 for 'already a
\* reseller' and 500 'Failed to create reseller' for everything else
ResellerFails(p, error) ==
    /\ rresp' = [user_id |-> rloc[p].user_id,
                 error |-> error,
                 code |-> IF error = "User is already a reseller"
                          THEN 409 ELSE 500,
                 message |-> IF error = "User is already a reseller"
                             THEN error ELSE "Failed to create reseller",
                 referral_code |-> <<>>]
    /\ rpc' = [rpc EXCEPT ![p] = "idle"]
    /\ rloc' = [rloc EXCEPT ![p] = NoRloc]
    /\ UNCHANGED <<resellers, codeUnique>>

\* POST /resellers arrives; the handler calls createReseller, which awaits
\* the lookup by user_id
CreateResellerCall(p, user_id) ==
    /\ rpc[p] = "idle"
    /\ BagCardinality(resellers) + Cardinality(CreatingReseller)
          < MaxResellers
    /\ rpc' = [rpc EXCEPT ![p] = "check_user"]
    /\ rloc' = [rloc EXCEPT ![p] = [NoRloc EXCEPT !.user_id = user_id]]
    /\ UNCHANGED <<resellers, codeUnique, rresp>>
    /\ UNCHANGED <<ivars, avars>>

\* the lookup by user_id returns; lookupFails: it returned an error, which
\* leaves existingReseller without a value
CheckUser(p, lookupFails) ==
    /\ rpc[p] = "check_user"
    /\ IF ~lookupFails /\ SingleWithUser(rloc[p].user_id)
       THEN ResellerFails(p, "User is already a reseller")
       ELSE /\ rpc' = [rpc EXCEPT ![p] = "check_code"]
            /\ UNCHANGED <<resellers, codeUnique, rloc, rresp>>
    /\ UNCHANGED <<ivars, avars>>

\* a retry loop without the cap on attempts
AttemptsExhausted_Never(attempts) == FALSE

\* if (attempts > 10) throw
AttemptsExhausted(attempts) == attempts > MaxAttempts

\* one iteration of the do/while: a draw and the lookup by referral_code;
\* lookupFails: the lookup returned an error, which leaves existing without
\* a value
DrawAndCheck(p, rnd, lookupFails) ==
    /\ rpc[p] = "check_code"
    /\ IF AttemptsExhausted(rloc[p].attempts + 1)
       THEN ResellerFails(p, "Failed to generate unique referral code")
       ELSE /\ IF lookupFails
                  \/ ~SingleWithCode(generateReferralCode(8, rnd))
               THEN /\ rpc' = [rpc EXCEPT ![p] = "insert"]
                    /\ rloc' = [rloc EXCEPT
                          ![p].attempts = @ + 1,
                          ![p].referral_code = generateReferralCode(8, rnd)]
               ELSE /\ rloc' = [rloc EXCEPT ![p].attempts = @ + 1]
                    /\ UNCHANGED rpc
            /\ UNCHANGED <<resellers, codeUnique, rresp>>
    /\ UNCHANGED <<ivars, avars>>

\* the row createReseller inserts
NewReseller(p) ==
    [user_id |-> rloc[p].user_id,
     referral_code |-> rloc[p].referral_code,
     type |-> "FREE"]

\* the insert, rejected when referral_code is declared UNIQUE and a row
\* holds the code
InsertReseller(p) ==
    /\ rpc[p] = "insert"
    /\ IF codeUnique /\ WithCode(rloc[p].referral_code) # {}
       THEN ResellerFails(p, "Failed to create reseller")
       ELSE /\ resellers' = resellers (+) SetToBag({NewReseller(p)})
            /\ rresp' = [user_id |-> rloc[p].user_id, error |-> "",
                         code |-> 201, message |-> "",
                         referral_code |-> rloc[p].referral_code]
            /\ rpc' = [rpc EXCEPT ![p] = "idle"]
            /\ rloc' = [rloc EXCEPT ![p] = NoRloc]
            /\ UNCHANGED codeUnique
    /\ UNCHANGED <<ivars, avars>>

NextResellers ==
    \/ \E p \in Procs, u \in Users : CreateResellerCall(p, u)
    \/ \E p \in Procs, f \in BOOLEAN : CheckUser(p, f)
    \/ \E p \in Procs, rnd \in RandomDraws, f \in BOOLEAN :
          DrawAndCheck(p, rnd, f)
    \/ \E p \in Procs : InsertReseller(p)

SpecResellers == InitResellers /\ [][NextResellers]_vars

C20_ReferralDrawsBounded ==
    [][\A p \in Procs :
          rpc[p] = "check_code"
          => /\ rloc[p].attempts <= MaxAttempts
             /\ (rpc'[p] = "check_code" /\ rloc'[p] # rloc[p])
                   => rloc'[p].attempts = rloc[p].attempts + 1
             /\ (rpc'[p] = "insert")
                   => rloc'[p].attempts = rloc[p].attempts + 1
             /\ (rloc[p].attempts = MaxAttempts /\ rpc'[p] # "check_code")
                   => /\ rpc'[p] = "idle"
                      /\ rresp'.error
                            = "Failed to generate unique referral code"
                      /\ resellers' = resellers]_vars

\* C20 witness: a call has ended with the error of the exhausted retry loop
\* while the table holds a reseller
C20_Witness ==
    /\ rresp.error = "Failed to generate unique referral code"
    /\ rresp.code = 500
    /\ BagCardinality(resellers) >= 1


(***************************************************************************)
(* Create requests of every category with payloads of every shape          *)
(***************************************************************************)
\* "2024-13": an ISO text whose month does not exist
ISO_Bad == <<"2", "0", "2", "4", "-", "1", "3">>

DateFields == {"eventDate", "partyDate", "dueDate", "graduationDate"}

\* the date fields validateInvitationData reads for a category
DateFieldsOf(type) ==
    CASE type \in {"wedding", "business"} -> {"eventDate"}
      [] type = "birthday" -> {"partyDate"}
      [] type = "baby_shower" -> {"dueDate", "partyDate"}
      [] type = "graduation" -> {"graduationDate"}
      [] OTHER -> {}

\* the error validateInvitationData reports for a date field
DateError(k) ==
    CASE k = "eventDate" -> "Invalid event date"
      [] k = "partyDate" -> "Invalid party date"
      [] k = "dueDate" -> "Invalid due date"
      [] k = "graduationDate" -> "Invalid graduation date"

\* texts sent as the value of a date field: a date, the empty string, a
\* text that is no date, a malformed ISO text
DateTexts == {D1, <<>>, S_Sa, ISO_Bad}

\* form_data of the create requests: the empty payload, payloads of names
\* and a date, and payloads of one date field
ValidatePayloads ==
    {<<>>, FD_Wedding, FD_Birthday}
    \cup {[k \in {f} |-> Str(d)] : f \in DateFields, d \in DateTexts}

NextValidate ==
    \/ \E p \in Procs, t \in InvitationType, fd \in ValidatePayloads,
          f \in BOOLEAN :
          /\ nextId + Cardinality(Creating) <= DeriveRows
          /\ CtlCreate(p, "A", t, "T1", fd, f)
    \/ \E p \in Procs : CreateInsert(p)

SpecValidate == Init /\ [][NextValidate]_vars

\* every field the payload carries has the shape of its declaration: names
\* are strings and dates are texts that parse to a point in time
ValidShape(fd) ==
    \A k \in DOMAIN fd :
        /\ fd[k].t = "string"
        /\ k \in DateFields => fd[k].v \in ValidDateTexts

\* C21: a create request of any category of InvitationType whose payload
\* carries only fields of a valid shape (the empty payload included) passes
\* validateInvitationData and is not answered with 400
C21_ValidPayloadAcceptedForEveryCategory ==
    [][\A p \in Procs, t \in InvitationType, fd \in ValidatePayloads,
          f \in BOOLEAN :
          (CtlCreate(p, "A", t, "T1", fd, f) /\ ValidShape(fd))
          => (isValid(t, fd) /\ pc'[p] = "create_insert")]_vars

\* C22: a create request whose payload carries, in a date field of its
\* category, a text that does not parse to a point in time (the empty string,
\* a text that is no date, a malformed ISO text) is answered with 400 and
\* the error of that field
C22_UnparseableDateRejected ==
    [][\A p \in Procs, t \in InvitationType, fd \in ValidatePayloads,
          f \in BOOLEAN :
          \A k \in DateFieldsOf(t) \cap DOMAIN fd :
              (CtlCreate(p, "A", t, "T1", fd, f)
               /\ fd[k].v \notin ValidDateTexts)
              => /\ resp'.code = 400
                 /\ resp'.message = DateError(k)
                 /\ pc'[p] = "idle"]_vars


(***************************************************************************)
(* Slugs of create requests with names of every kind                       *)
(***************************************************************************)
\* texts sent as a name: empty, only characters outside [a-z0-9], a plain
\* name, a name with upper case, hyphens and a blank, a lone hyphen
NameTexts ==
    {<<>>, <<"!", " ">>, S_Sa, <<"A", "-", "-", "b", " ">>, <<"-">>}

NameFields == {"brideName", "groomName", "celebrantName", "graduateName"}

\* form_data of the create requests: no name field, one name field, an age
SlugPayloads ==
    {<<>>, FD_Wedding, [age |-> Num(<<"7">>)]}
    \cup {[k \in {f} |-> Str(n)] : f \in NameFields, n \in NameTexts}

NextSlugBase ==
    \/ \E p \in Procs, t \in InvitationType, fd \in SlugPayloads :
          /\ nextId + Cardinality(Creating) <= DeriveRows
          /\ CtlCreate(p, "A", t, "T1", fd, FALSE)
    \/ \E p \in Procs : CreateInsert(p)

SpecSlugBase == Init /\ [][NextSlugBase]_vars

\* ^[a-z0-9]+(-[a-z0-9]+)*$
SlugShaped(s) ==
    /\ s # <<>>
    /\ \A i \in DOMAIN s :
          s[i] \in Range(LowerChars) \cup Range(DigitChars) \cup {"-"}
    /\ s[1] # "-"
    /\ s[Len(s)] # "-"
    /\ \A i \in 1 .. Len(s) - 1 : ~(s[i] = "-" /\ s[i + 1] = "-")

\* w occurs in s
Contains(s, w) ==
    \E i \in 0 .. Len(s) - Len(w) : SubSeq(s, i + 1, i + Len(w)) = w

\* the placeholder words of the name fields of a category
Placeholders(type) ==
    CASE type = "wedding" ->
            {<<"brideName", T_bride>>, <<"groomName", T_groom>>}
      [] type = "birthday" ->
            {<<"celebrantName", T_birthday>>, <<"age", T_party>>}
      [] type = "graduation" -> {<<"graduateName", T_graduate>>}
      [] OTHER -> {}

\* the slug generate_invitation_slug made for type and form_data is the base
\* slug or the base slug with a numeric suffix; the base slug has the shape
\* of a slug and holds the placeholder of every absent name field
BaseSlugWellFormed(type, fd, slug) ==
    /\ SlugShaped(BaseSlug(type, fd))
    /\ SubSeq(slug, 1, Len(BaseSlug(type, fd))) = BaseSlug(type, fd)
    /\ \A ph \in Placeholders(type) :
          ph[1] \notin DOMAIN fd => Contains(BaseSlug(type, fd), ph[2])

\* C23: for every category and every form_data, with name fields absent,
\* empty or made of characters outside [a-z0-9] only, the base slug is not
\* empty and matches ^[a-z0-9]+(-[a-z0-9]+)*$, and an absent name field
\* appears as its placeholder word; checked on the slug of every create in
\* progress and of every stored invitation
C23_BaseSlugWellFormed ==
    /\ \A p \in Procs :
          pc[p] = "create_insert"
          => BaseSlugWellFormed(req[p].type, req[p].form_data, loc[p].slug)
    /\ \A i \in DOMAIN store :
          BaseSlugWellFormed(store[i].type, store[i].form_data,
                             store[i].slug)

\* C23 witness: a wedding invitation whose brideName holds only characters
\* outside [a-z0-9] and whose groomName is absent is stored with the slug
\* groom-wedding
C23_Witness ==
    \E i \in DOMAIN store :
        /\ store[i].type = "wedding"
        /\ store[i].form_data = [brideName |-> Str(<<"!", " ">>)]
        /\ store[i].slug = T_groom \o T_wedding


(***************************************************************************)
(* Admin authentication: adminAuth, AuthService.login, refreshToken        *)
(***************************************************************************)
\* config.jwt.secret, and a key that is not the secret
JwtSecret == "JWT_SECRET"
OtherSecret == "other"

\* config.jwt.expiresIn '24h' and the 7 days of the user token, in seconds
ExpiresIn == 86400
UserExpiresIn == 604800

\* Math.floor(Date.now() / 1000)
ClockSeconds(t) == t \div 1000

\* an admin created through POST /admin/auth/create-admin
SecondAdmin ==
    [id |-> 2, email |-> "second@invitation.com",
     password_hash |-> Hash("password2")]

\* the admin_users table when the first request arrives
AdminTables == {{}, {DefaultAdmin}, {DefaultAdmin, SecondAdmin}}

InitAdmin ==
    /\ InitTables
    /\ codeUnique = TRUE
    /\ admin_users \in AdminTables

\* bcrypt.compare(password, hash)
compare(password, hash) == hash = Hash(password)

\* the token AuthService.login signs for an admin at time t
AdminToken(admin, t) ==
    sign([id |-> admin.id, role |-> "admin",
          exp |-> ClockSeconds(t) + ExpiresIn], JwtSecret)

\* the token UserAuthService.loginWithGoogle signs for a user at time t; its
\* payload has no role
UserToken(id, t) ==
    sign([id |-> id, role |-> "", exp |-> ClockSeconds(t) + UserExpiresIn],
         JwtSecret)

\* jwt.verify(token, secret) at time t: the error it throws, "" for none
verifyError(token, secret, t) ==
    IF token.kind # "jwt" THEN "JsonWebTokenError"
    ELSE IF token.key # secret THEN "JsonWebTokenError"
    ELSE IF ClockSeconds(t) >= token.exp THEN "TokenExpiredError"
    ELSE ""

\* error instanceof jwt.JsonWebTokenError: TokenExpiredError extends it
IsJsonWebTokenError(e) == e \in {"JsonWebTokenError", "TokenExpiredError"}

\* a role check that lets every verified token pass
IsAdminRole_Any(role) == TRUE

\* decoded.role === 'admin'
IsAdminRole(role) == role = "admin"

\* adminAuth: the response it sends, with code 0 when it calls next()
adminAuth(cookie) ==
    IF cookie.kind = "none"
    THEN [code |-> 401, message |-> "Authentication required"]
    ELSE IF verifyError(cookie, JwtSecret, now) = ""
    THEN IF ~IsAdminRole(cookie.role)
         THEN [code |-> 403, message |-> "Admin access required"]
         ELSE [code |-> 0, message |-> ""]
    ELSE IF IsJsonWebTokenError(verifyError(cookie, JwtSecret, now))
    THEN [code |-> 401, message |-> "Invalid JWT token"]
    ELSE IF verifyError(cookie, JwtSecret, now) = "TokenExpiredError"
    THEN [code |-> 401, message |-> "JWT token has expired"]
    ELSE [code |-> 500, message |-> "Authentication error"]

AdminReply(p, code, message, token, admin) ==
    /\ aresp' = [code |-> code, message |-> message, token |-> token,
                 admin |-> admin]
    /\ apc' = [apc EXCEPT ![p] = "idle"]
    /\ aloc' = [aloc EXCEPT ![p] = NoAloc]
    /\ UNCHANGED <<admin_users, ivars, rvars>>

\* AuthService.login: the admin it signs a token for, or none when it
\* throws 'Invalid credentials'
loginAdmin(email, password) ==
    {a \in admin_users :
        a.email = email /\ compare(password, a.password_hash)}

\* POST /admin/auth/login
PostLogin(p, email, password) ==
    /\ apc[p] = "idle"
    /\ IF loginAdmin(email, password) # {}
       THEN \E a \in loginAdmin(email, password) :
               AdminReply(p, 200, "Login successful", AdminToken(a, now),
                          a.id)
       ELSE AdminReply(p, 401, "Invalid email or password", NoCookie, 0)

\* POST /admin/auth/refresh: adminAuth, then refreshToken up to its first
\* await
PostRefresh(p, cookie) ==
    /\ apc[p] = "idle"
    /\ IF adminAuth(cookie).code # 0
       THEN AdminReply(p, adminAuth(cookie).code, adminAuth(cookie).message,
                       NoCookie, 0)
       ELSE /\ apc' = [apc EXCEPT ![p] = "get_admin"]
            /\ aloc' = [aloc EXCEPT ![p] = [NoAloc EXCEPT !.id = cookie.id]]
            /\ UNCHANGED <<admin_users, aresp, ivars, rvars>>

\* refreshToken: AuthService.getAdminById returns
RefreshGetAdmin(p) ==
    /\ apc[p] = "get_admin"
    /\ IF \E a \in admin_users : a.id = aloc[p].id
       THEN \E a \in admin_users :
               /\ a.id = aloc[p].id
               /\ apc' = [apc EXCEPT ![p] = "login"]
               /\ aloc' = [aloc EXCEPT ![p].email = a.email]
               /\ UNCHANGED <<admin_users, aresp, ivars, rvars>>
       ELSE AdminReply(p, 404, "Admin not found", NoCookie, 0)

\* refreshToken: AuthService.login({ email: admin.email, password: '' })
\* returns or throws
RefreshLogin(p) ==
    /\ apc[p] = "login"
    /\ IF loginAdmin(aloc[p].email, "") # {}
       THEN \E a \in loginAdmin(aloc[p].email, "") :
               AdminReply(p, 200, "", AdminToken(a, now), a.id)
       ELSE AdminReply(p, 500, "Failed to refresh token", NoCookie, 0)

\* the admin_token cookies of the requests: none, a text that is no token,
\* tokens of admin login and of user login, fresh and expired, and an admin
\* payload signed with another key
Cookies ==
    {NoCookie, NotAToken,
     AdminToken(DefaultAdmin, ClockStart),
     AdminToken(SecondAdmin, ClockStart),
     AdminToken(DefaultAdmin, ClockStart - ExpiresIn * 1000),
     UserToken(1, ClockStart),
     UserToken(1, ClockStart - UserExpiresIn * 1000),
     sign([id |-> 1, role |-> "user", exp |-> ExpiresIn], JwtSecret),
     sign([id |-> 1, role |-> "admin", exp |-> ExpiresIn], OtherSecret)}

Logins ==
    {<<"admin@invitation.com", "admin123">>,
     <<"admin@invitation.com", "">>,
     <<"second@invitation.com", "password2">>}

NextAdmin ==
    \/ \E p \in Procs, l \in Logins : PostLogin(p, l[1], l[2])
    \/ \E p \in Procs, c \in Cookies : PostRefresh(p, c)
    \/ \E p \in Procs : RefreshGetAdmin(p)
    \/ \E p \in Procs : RefreshLogin(p)

SpecAdmin == InitAdmin /\ [][NextAdmin]_vars

\* the token verifies against the signing secret and is not expired
VerifiesUnexpired(cookie) ==
    /\ cookie.kind = "jwt"
    /\ cookie.key = JwtSecret
    /\ ClockSeconds(now) < cookie.exp

C28_RefreshIssuesToken ==
    [][\A p \in Procs :
          (RefreshLogin(p)
           /\ \E a \in admin_users : a.email = aloc[p].email)
          => /\ aresp'.code = 200
             /\ aresp'.token = AdminToken([id |-> aloc[p].id], now)]_vars


(***************************************************************************)
(* The WHILE EXISTS loop of generate_invitation_slug                       *)
(***************************************************************************)
\* the number of times the loop evaluates EXISTS (SELECT 1 FROM invitations
\* WHERE slug = final_slug), entered with final_slug and counter
RECURSIVE UniqueLoopChecks(_, _, _, _)
UniqueLoopChecks(base_slug, final_slug, counter, slugs) ==
    IF final_slug \in slugs
    THEN 1 + UniqueLoopChecks(base_slug,
                              base_slug \o <<"-">> \o IntText(counter),
                              counter + 1, slugs)
    ELSE 1

\* a limit on the existence checks of one call that does not grow with the
\* table: the number of rows the table can hold when a call starts
SlugCheckLimit == MaxInv - 1

\* C25: a call of generate_invitation_slug returns a slug that is not stored
\* at its last existence check, and it makes no more existence checks than a
\* fixed limit, giving up instead of returning a slug when the limit is
\* reached
C25_SlugLoopGivesUp ==
    [][\A p \in Procs, c \in SlugCreateInputs :
          (CtlCreate(p, "A", c[1], c[2], c[3], FALSE)
           /\ pc'[p] = "create_insert")
          => /\ loc'[p].slug \notin Slugs
             /\ UniqueLoopChecks(BaseSlug(c[1], c[3]), BaseSlug(c[1], c[3]),
                                 1, Slugs) <= SlugCheckLimit]_vars


\* C26: createReseller throws 'Failed to generate unique referral code' only
\* when its draws collided: an iteration of the retry loop whose draw is held
\* by no reseller, the last iteration the loop makes included, takes the call
\* to the insert with that code
C26_FreeDrawProceedsToInsert ==
    [][\A p \in Procs, rnd \in RandomDraws :
          (DrawAndCheck(p, rnd, FALSE)
           /\ WithCode(generateReferralCode(8, rnd)) = {})
          => /\ rpc'[p] = "insert"
             /\ rloc'[p].referral_code = generateReferralCode(8, rnd)]_vars


\* C29: in every reachable state the table resellers holds at most one row
\* per user_id, and a createReseller call for a user who has a row ends with
\* 'User is already a reseller' (409) without inserting, also when calls for
\* the same user overlap
C29_OneResellerPerUser ==
    \A x, y \in ResellerRows : x # y => x[1].user_id # y[1].user_id


(***************************************************************************)
(* GET /invitations with page and limit in the query string                *)
(***************************************************************************)
\* a JavaScript number: NaN, or an integer
NaN == [nan |-> TRUE, n |-> 0]
Number(n) == [nan |-> FALSE, n |-> n]

\* the digits a text starts with
RECURSIVE LeadingDigits(_)
LeadingDigits(s) ==
    IF s = <<>> \/ Head(s) \notin Range(DigitChars) THEN <<>>
    ELSE <<Head(s)>> \o LeadingDigits(Tail(s))

DigitValue(ch) == CHOOSE d \in 0 .. 9 : DigitChars[d + 1] = ch

\* the number a text of digits denotes
RECURSIVE DigitsValue(_)
DigitsValue(ds) ==
    IF ds = <<>> THEN 0
    ELSE 10 * DigitsValue(SubSeq(ds, 1, Len(ds) - 1))
         + DigitValue(ds[Len(ds)])

\* parseInt(x) for a query parameter: an optional sign and the leading
\* digits; NaN for an absent parameter and for a text that starts with
\* neither
parseInt(x) ==
    IF x.t # "string" THEN NaN
    ELSE IF x.v # <<>> /\ Head(x.v) = "-"
    THEN IF LeadingDigits(Tail(x.v)) = <<>> THEN NaN
         ELSE Number(0 - DigitsValue(LeadingDigits(Tail(x.v))))
    ELSE IF LeadingDigits(x.v) = <<>> THEN NaN
    ELSE Number(DigitsValue(LeadingDigits(x.v)))

\* x || dflt for a number: NaN and 0 are falsy
OrDefault(x, dflt) == IF x.nan \/ x.n = 0 THEN dflt ELSE x.n

\* filters.page and filters.limit of InvitationController.list
ListPage(query) == OrDefault(parseInt(query.page), 1)
ListLimit(query) == OrDefault(parseInt(query.limit), 10)

\* const offset = (page - 1) * limit
ListOffset(page, limit) == (page - 1) * limit

\* rows of the user from position offset to offset + limit - 1 in the order
\* of the query; rows are listed here before any update, so updated_at
\* descending is the reverse of the order of creation
ListRange(userId, offset, limit) ==
    {store[i] : i \in {j \in DOMAIN store :
        /\ store[j].user_id = userId
        /\ LET rank == Cardinality({k \in DOMAIN store :
                          store[k].user_id = userId /\ k > j})
           IN  offset <= rank /\ rank <= offset + limit - 1}}

\* count: 'exact'
ListTotal(userId) ==
    Cardinality({j \in DOMAIN store : store[j].user_id = userId})

\* InvitationListResponse without its rows
ListMeta(userId, page, limit) ==
    [id |-> 0, total |-> ListTotal(userId), page |-> page, limit |-> limit,
     offset |-> ListOffset(page, limit),
     has_more |-> ListTotal(userId) > ListOffset(page, limit) + limit]

\* GET /invitations?page=..&limit=..; rangeFails: the store answers a range
\* that starts below 0 or ends before it starts with an error
CtlListPaged(p, user, query, rangeFails) ==
    /\ pc[p] = "idle"
    /\ IF rangeFails
          /\ (ListOffset(ListPage(query), ListLimit(query)) < 0
              \/ ListLimit(query) < 1)
       THEN ReplyLogged(p, IdReq("list", user, 0), 500, NoRow, {},
                        "Internal server error", "Error listing invitations")
       ELSE Reply(p, IdReq("list", user, 0), 200,
                  ListMeta(user, ListPage(query), ListLimit(query)),
                  ListRange(user,
                            ListOffset(ListPage(query), ListLimit(query)),
                            ListLimit(query)),
                  "")
    /\ UNCHANGED <<store, nextId, now>>

\* values of page and limit in the query string: absent, zero, negative,
\* not a number, very large, and plain
QueryTexts ==
    {UNDEFINED, Str(<<"0">>), Str(<<"-", "5">>), Str(<<"a", "b", "c">>),
     Str(<<"1", "0", "0", "0">>), Str(<<"2">>), Str(<<"1">>)}

PageQueries == [page : QueryTexts, limit : QueryTexts]

\* the largest page size
MaxLimit == 100

NextPaging ==
    \/ \E p \in Procs : CtlCreate(p, "A", "wedding", "T1", FD_Wedding, FALSE)
    \/ \E p \in Procs : CreateInsert(p)
    \/ \E p \in Procs, q \in PageQueries, f \in BOOLEAN :
          CtlListPaged(p, "A", q, f)

SpecPaging == Init /\ [][NextPaging]_vars

\* C27: whatever page and limit the query string of the invitations list
\* carries, the page used for the query is at least 1, the page size is
\* within 1..MaxLimit and the offset of the range is not negative
C27_PaginationClamped ==
    [][\A p \in Procs, q \in PageQueries, f \in BOOLEAN :
          (CtlListPaged(p, "A", q, f) /\ resp'.code = 200)
          => /\ resp'.data.page >= 1
             /\ resp'.data.limit \in 1 .. MaxLimit
             /\ resp'.data.offset >= 0]_vars


(***************************************************************************)
(* Public lookups of invitations whose status the owner updates            *)
(***************************************************************************)
StatusUpdateInputs ==
    {Body("", "archived", FALSE, <<>>),
     Body("", "expired", FALSE, <<>>),
     Body("", "draft", FALSE, <<>>)}

NextArchive ==
    \/ \E p \in Procs :
          /\ nextId + Cardinality(Creating) <= DeriveRows
          /\ CtlCreate(p, "A", "wedding", "T1", FD_Wedding, FALSE)
    \/ \E p \in Procs : CreateInsert(p)
    \/ \E p \in Procs, id \in Ids : CtlPublish(p, "A", id)
    \/ \E p \in Procs, id \in Ids : CtlUnpublish(p, "A", id)
    \/ \E p \in Procs, id \in Ids, b \in StatusUpdateInputs :
          CtlUpdate(p, "A", id, b)
    \/ \E p \in Procs, s \in LookupSlugs : CtlGetBySlug(p, s)
    \/ \E p \in Procs : TrackRead(p)
    \/ \E p \in Procs : TrackWriteOk(p)
    \/ \E p \in Procs : TrackWriteFails(p)

SpecArchive == Init /\ [][NextArchive]_vars

\* C30: the query of a public lookup selects an invitation only if its
\* status is published; an invitation whose status is draft, archived or
\* expired, for example after an update of the owner that sets status, is
\* not returned and its view_count is not incremented
C30_LookupServesPublishedStatusOnly ==
    [][/\ \A p \in Procs :
             (pc[p] = "idle" /\ pc'[p] = "track_read")
             => loc'[p].row.status = "published"
       /\ (resp'.op = "getBySlug" /\ resp'.data # NoRow)
             => resp'.data.status = "published"
       /\ \A p \in Procs :
             (pc[p] = "track_write" /\ store' # store)
             => loc[p].row.status = "published"]_vars

====
